---- MODULE Spec2Model ----
(***************************************************************************)
(* Model of mlx/backend/metal/binary.cpp: the kernel-name builder          *)
(* get_kernel_name and the dispatcher binary_op_gpu_inplace, which picks   *)
(* the index width and work-per-thread, binds the kernel arguments on the  *)
(* command encoder of a stream and submits one launch.                     *)
(***************************************************************************)
EXTENDS Integers, Sequences, FiniteSets, TLC

VARIABLES
    enc,        \* per stream index: the commands recorded on its command encoder
    library,    \* kernel names the kernel provider has been asked to resolve
    maxTotalThreadsPerThreadgroup,  \* what kernel->maxTotalThreadsPerThreadgroup() answers
    call,       \* arguments of the binary_op_gpu_inplace call made (<<>> before it)
    locals,     \* the call's locals once computed (<<>> before, and on the early return)
    outcome,    \* "idle", "returned_early", "returned" or "thrown"
    first,      \* get_kernel_name: the first call made, its arguments and result
    second      \* get_kernel_name: the second call made, its arguments and result

vars == <<enc, library, maxTotalThreadsPerThreadgroup, call, locals, outcome, first, second>>

(***************************************************************************)
(* Bounds of the model.                                                    *)
(***************************************************************************)
MaxRank == 5    \* longest shape of an operand
MaxDim == 3     \* largest extent of a dimension of the small shapes
MaxPrior == 1   \* submissions already recorded on an encoder before the call

(***************************************************************************)
(* size_t / int64_t values.  TLC's integers are 32 bits wide, so a 64-bit  *)
(* count is a little-endian sequence of 15-bit limbs without leading zero  *)
(* limbs; equal values are equal sequences.  The recursions are functions, *)
(* which TLC applies to evaluated arguments.                               *)
(***************************************************************************)
Base == 2 ^ 15
Limbs == Seq(Nat)

Trim[tx \in Limbs] ==
    IF tx = <<>> THEN tx
    ELSE IF tx[Len(tx)] = 0 THEN Trim[SubSeq(tx, 1, Len(tx) - 1)] ELSE tx

ToLimbs[n \in Nat] == IF n = 0 THEN <<>> ELSE <<n % Base>> \o ToLimbs[n \div Base]

\* a TLC integer as a 64-bit count
U64(n) == ToLimbs[n]

Limb(lx, li) == IF li <= Len(lx) THEN lx[li] ELSE 0
Rest(rx) == IF rx = <<>> THEN rx ELSE Tail(rx)

\* reduction modulo 2^64: four whole limbs and the low 4 bits of the fifth
Wrap64(wx) ==
    Trim[[i \in 1..(IF Len(wx) < 5 THEN Len(wx) ELSE 5) |->
            IF i = 5 THEN wx[i] % 16 ELSE wx[i]]]

AddC[ax \in Limbs, ay \in Limbs, ac \in Nat] ==
    IF ax = <<>> /\ ay = <<>> THEN (IF ac = 0 THEN <<>> ELSE <<ac>>)
    ELSE <<(Limb(ax, 1) + Limb(ay, 1) + ac) % Base>>
         \o AddC[Rest(ax), Rest(ay), (Limb(ax, 1) + Limb(ay, 1) + ac) \div Base]

SzAdd(sax, say) == Wrap64(AddC[sax, say, 0])

LessAt[cx \in Limbs, cy \in Limbs, ci \in Nat] ==
    IF ci = 0 THEN FALSE
    ELSE IF cx[ci] # cy[ci] THEN cx[ci] < cy[ci] ELSE LessAt[cx, cy, ci - 1]

SzLess(lsx, lsy) ==
    IF Len(lsx) # Len(lsy) THEN Len(lsx) < Len(lsy) ELSE LessAt[lsx, lsy, Len(lsx)]
SzLeq(lqx, lqy) == lqx = lqy \/ SzLess(lqx, lqy)

SubB[bx \in Limbs, by \in Limbs, bb \in Nat] ==
    IF bx = <<>> THEN <<>>
    ELSE IF bx[1] - Limb(by, 1) - bb < 0
         THEN <<bx[1] - Limb(by, 1) - bb + Base>> \o SubB[Tail(bx), Rest(by), 1]
         ELSE <<bx[1] - Limb(by, 1) - bb>> \o SubB[Tail(bx), Rest(by), 0]

\* the difference, for a subtrahend that is not larger
SzSub(ssx, ssy) == Trim[SubB[ssx, ssy, 0]]

MulC[mx \in Limbs, mm \in Nat, mc \in Nat] ==
    IF mx = <<>> THEN ToLimbs[mc]
    ELSE <<(mx[1] * mm + mc) % Base>> \o MulC[Tail(mx), mm, (mx[1] * mm + mc) \div Base]

\* the product with a single limb
MulLimb(mlx, mlm) == Trim[MulC[mlx, mlm, 0]]

ShiftLimb(shx) == IF shx = <<>> THEN shx ELSE <<0>> \o shx

MulAll[max \in Limbs, may \in Limbs] ==
    IF may = <<>> THEN <<>>
    ELSE AddC[MulLimb(max, may[1]), ShiftLimb(MulAll[max, Tail(may)]), 0]

SzMul(smx, smy) == Wrap64(MulAll[smx, smy])

\* the largest digit whose product with the divisor qy does not exceed qr
QuotDigit[qr \in Limbs, qy \in Limbs, bit \in Nat, acc \in Nat] ==
    IF bit = 0 THEN acc
    ELSE QuotDigit[qr, qy, bit \div 2,
                   IF SzLeq(MulLimb(qy, acc + bit), qr) THEN acc + bit ELSE acc]

\* long division, most significant limb first: <<quotient, remainder>>
DivRem[dx \in Limbs, dv \in Limbs] ==
    IF dx = <<>> THEN <<<<>>, <<>>>>
    ELSE LET hi == DivRem[Tail(dx), dv]
             r0 == Trim[<<dx[1]>> \o hi[2]]
             dd == QuotDigit[r0, dv, Base \div 2, 0]
         IN  <<Trim[<<dd>> \o hi[1]], SzSub(r0, MulLimb(dv, dd))>>

\* unsigned division by a non-zero divisor
SzDiv(sdx, sdy) == DivRem[sdx, sdy][1]

\* the value as a TLC integer, for values below 2^31
ToNat[nx \in Limbs] == IF nx = <<>> THEN 0 ELSE nx[1] + Base * ToNat[Tail(nx)]

\* static_cast<int>(size_t): the low 32 bits read as a two's complement int
ToInt32(ix) ==
    LET top == Limb(ix, 3) % 4
        low == Limb(ix, 1) + Base * Limb(ix, 2)
    IN  IF top < 2 THEN low + top * (2 ^ 30)
        ELSE ((low + (top - 2) * (2 ^ 30)) - 2147483647) - 1

INT32_MAX == 2147483647
UINT32_MAX == SzAdd(SzMul(U64(INT32_MAX), U64(2)), U64(1))

RECURSIVE Product(_)
Product(shape) ==
    IF shape = <<>> THEN U64(1) ELSE SzMul(U64(Head(shape)), Product(Tail(shape)))

(***************************************************************************)
(* Array views: shape, strides, element type, element count (size) and     *)
(* storage element count (data_size).  The dispatcher only reads them.     *)
(***************************************************************************)
Dtypes == {"Float32", "Int8"}

RECURSIVE RowMajor(_)
RowMajor(shape) ==
    IF Len(shape) <= 1 THEN [i \in 1..Len(shape) |-> 1]
    ELSE LET inner == RowMajor(Tail(shape))
         IN  <<inner[1] * shape[2]>> \o inner

\* the dimensions of `shape` a layout keeps in storage (the others have stride 0)
Stored(shape, layout) ==
    CASE layout = "bcast" -> {i \in 1..Len(shape) : i # 1}
      [] layout = "alt"   -> {i \in 1..Len(shape) : (Len(shape) - i) % 2 = 0}
      [] OTHER            -> 1..Len(shape)

\* row-major strides over the stored dimensions, 0 on the broadcast ones
RECURSIVE LayoutStrides(_, _, _, _)
LayoutStrides(shape, keep, i, inner) ==
    IF i = 0 THEN <<>>
    ELSE IF i \notin keep THEN LayoutStrides(shape, keep, i - 1, inner) \o <<0>>
    ELSE IF i = 1 THEN <<inner>>
    ELSE LayoutStrides(shape, keep, i - 1, inner * shape[i]) \o <<inner>>

Scale(strides, k) == [i \in 1..Len(strides) |-> k * strides[i]]

StoredShape(shape, keep) ==
    LET F[i \in 0..Len(shape)] ==
            IF i = 0 THEN <<>>
            ELSE IF i \in keep THEN F[i - 1] \o <<shape[i]>> ELSE F[i - 1]
    IN  F[Len(shape)]

\* a view of `shape`: "dense" is row-contiguous, "bcast" is broadcast along the
\* first axis, "alt" is broadcast along every second axis, "step2" takes every
\* second element of a buffer twice as large
View(shape, layout, dtype) ==
    LET keep == Stored(shape, layout)
        rm   == LayoutStrides(shape, keep, Len(shape), 1)
        kept == Product(StoredShape(shape, keep))
    IN  [shape     |-> shape,
         strides   |-> IF layout = "step2" THEN Scale(rm, 2) ELSE rm,
         size      |-> Product(shape),
         data_size |-> IF layout = "step2" THEN SzMul(kept, U64(2)) ELSE kept,
         dtype     |-> dtype]

\* a single-element operand
Scalar(dtype) == View(<<>>, "dense", dtype)

Operand(shape, layout, dtype) ==
    IF layout = "scalar" THEN Scalar(dtype) ELSE View(shape, layout, dtype)

contiguous(a) == a.strides = RowMajor(a.shape)

\* get_binary_op_type (mlx/backend/common/binary.h), the BroadcastClassifier
get_binary_op_type(a, b) ==
    IF a.size = U64(1) /\ b.size = U64(1) THEN "ScalarScalar"
    ELSE IF a.size = U64(1) THEN "ScalarVector"
    ELSE IF b.size = U64(1) THEN "VectorScalar"
    ELSE IF a.shape = b.shape /\ contiguous(a) /\ contiguous(b) THEN "VectorVector"
    ELSE "General"

BinaryOpTypes == {"ScalarScalar", "ScalarVector", "VectorScalar", "VectorVector", "General"}

\* collapse_contiguous_dims(a, b, out), the StrideCollapser: from the innermost
\* dimension outward, dimension i joins the dimension after it when, for each
\* of the three arrays, its stride is that dimension's stride times its size
Join(shape, strides, i, acc) ==
    IF \A k \in 1..3 : strides[k][i] = acc.strides[k][1] * acc.shape[1]
    THEN [shape   |-> <<shape[i] * acc.shape[1]>> \o Tail(acc.shape),
          strides |-> acc.strides]
    ELSE [shape   |-> <<shape[i]>> \o acc.shape,
          strides |-> [k \in 1..3 |-> <<strides[k][i]>> \o acc.strides[k]]]

\* dimensions i..n collapsed (the inner result is bound once, then joined)
RECURSIVE CollapseFrom(_, _, _)
CollapseFrom(shape, strides, i) ==
    IF i = Len(shape)
    THEN [shape |-> <<shape[i]>>, strides |-> [k \in 1..3 |-> <<strides[k][i]>>]]
    ELSE CHOOSE joined \in {Join(shape, strides, i, acc) :
                               acc \in {CollapseFrom(shape, strides, i + 1)}} : TRUE

collapse_contiguous_dims(a, b, out) ==
    IF Len(out.shape) = 0 THEN [shape |-> <<>>, strides |-> <<<<>>, <<>>, <<>>>>]
    ELSE CollapseFrom(out.shape, <<a.strides, b.strides, out.strides>>, 1)

\* type_to_name(a): the element-type tag of a kernel name
type_to_name(a) ==
    CASE a.dtype = "Float32" -> "float32"
      [] a.dtype = "Int8"    -> "int8"

\* std::to_string of a non-negative int
RECURSIVE to_string(_)
to_string(n) ==
    LET digit == <<"0", "1", "2", "3", "4", "5", "6", "7", "8", "9">>
    IN  IF n < 10 THEN digit[n + 1] ELSE to_string(n \div 10) \o digit[(n % 10) + 1]

\* get_kernel_name without the "large" marker of the general kernels
get_kernel_name_no_large(bopt, op, a, large, ndim, work_per_thread) ==
    LET tag == CASE bopt = "ScalarScalar" -> "ss"
                 [] bopt = "ScalarVector" -> "sv"
                 [] bopt = "VectorScalar" -> "vs"
                 [] bopt = "VectorVector" -> "vv"
                 [] bopt = "General" ->
                      "g" \o (IF ndim <= 3 THEN to_string(ndim)
                              ELSE "n" \o to_string(work_per_thread))
        suffix == IF bopt # "General" /\ bopt # "ScalarScalar"
                  THEN (IF large THEN "2"
                        ELSE IF work_per_thread > 1 THEN "n" ELSE "")
                  ELSE ""
    IN  tag \o suffix \o "_" \o op \o type_to_name(a)

\* get_kernel_name with the width suffix on the ScalarScalar kernels too
get_kernel_name_ss_suffix(bopt, op, a, large, ndim, work_per_thread) ==
    LET tag == CASE bopt = "ScalarScalar" -> "ss"
                 [] bopt = "ScalarVector" -> "sv"
                 [] bopt = "VectorScalar" -> "vs"
                 [] bopt = "VectorVector" -> "vv"
                 [] bopt = "General" ->
                      "g" \o (IF ndim <= 3 THEN to_string(ndim)
                              ELSE "n" \o to_string(work_per_thread))
                          \o (IF large THEN "large" ELSE "")
        suffix == IF bopt # "General"
                  THEN (IF large THEN "2"
                        ELSE IF work_per_thread > 1 THEN "n" ELSE "")
                  ELSE ""
    IN  tag \o suffix \o "_" \o op \o type_to_name(a)

get_kernel_name(bopt, op, a, large, ndim, work_per_thread) ==
    LET tag == CASE bopt = "ScalarScalar" -> "ss"
                 [] bopt = "ScalarVector" -> "sv"
                 [] bopt = "VectorScalar" -> "vs"
                 [] bopt = "VectorVector" -> "vv"
                 [] bopt = "General" ->
                      "g" \o (IF ndim <= 3 THEN to_string(ndim)
                              ELSE "n" \o to_string(work_per_thread))
                          \o (IF large THEN "large" ELSE "")
        suffix == IF bopt # "General" /\ bopt # "ScalarScalar"
                  THEN (IF large THEN "2"
                        ELSE IF work_per_thread > 1 THEN "n" ELSE "")
                  ELSE ""
    IN  tag \o suffix \o "_" \o op \o type_to_name(a)

(***************************************************************************)
(* binary_op_gpu_inplace, piece by piece.  A command recorded on an        *)
(* encoder is [cmd, val, slot]; slot is -1 for a command that binds no     *)
(* argument.                                                               *)
(***************************************************************************)
Streams == {0, 1}
BlockSize == 1024
MaxThreadsValues == {BlockSize, BlockSize \div 2}

Command(cmd, val, slot) == [cmd |-> cmd, val |-> val, slot |-> slot]

\* the call without its early return
empty_output_unchecked(out) == FALSE

empty_output(out) == out.size = U64(0)

maybe_collapse(bopt, a, b, out) ==
    IF bopt = "General"
    THEN LET c == collapse_contiguous_dims(a, b, out)
         IN  [shape       |-> c.shape,
              strides_a   |-> c.strides[1],
              strides_b   |-> c.strides[2],
              strides_out |-> c.strides[3]]
    ELSE [shape |-> <<>>, strides_a |-> <<>>, strides_b |-> <<>>, strides_out |-> <<>>]

\* the width choice with >= in place of >
select_large_geq(bopt, a, b, out) ==
    IF bopt = "General"
    THEN \/ SzLeq(U64(INT32_MAX), a.data_size)
         \/ SzLeq(U64(INT32_MAX), b.data_size)
         \/ SzLeq(U64(INT32_MAX), out.size)
    ELSE SzLeq(UINT32_MAX, out.data_size)

select_large(bopt, a, b, out) ==
    IF bopt = "General"
    THEN \/ SzLess(U64(INT32_MAX), a.data_size)
         \/ SzLess(U64(INT32_MAX), b.data_size)
         \/ SzLess(U64(INT32_MAX), out.size)
    ELSE SzLess(UINT32_MAX, out.data_size)

\* get_work_per_thread(dtype, size) (mlx/backend/metal/utils.h): the values the
\* heuristic may answer; wider elements get the smaller multipliers
get_work_per_thread(dtype, size) ==
    IF dtype = "Float32" THEN {1, 2} ELSE {1, 2, 4}

\* `heuristic` is the answer of get_work_per_thread for this call
select_work_per_thread(bopt, large, heuristic) ==
    IF bopt = "General" THEN (IF large THEN 4 ELSE 2) ELSE heuristic

\* get_binary_kernel / get_binary_two_kernel: the handle of the resolved kernel
resolve_kernel(outputs, kernel_name, a, out, op) ==
    [name |-> kernel_name, two |-> (Len(outputs) = 2)]

array_bindings(outputs) ==
    <<Command("set_input_array", "a", 0),
      Command("set_input_array", "b", 1),
      Command("set_output_array", "outputs[0]", 2)>>
    \o (IF Len(outputs) = 2
        THEN <<Command("set_output_array", "outputs[1]", 3)>>
        ELSE <<>>)

\* the slot counter not advanced by the second output
first_free_slot_single(outputs) == 3

first_free_slot(outputs) == IF Len(outputs) = 2 THEN 4 ELSE 3

\* the general grid with dim0 / work_per_thread rounded down
general_grid_floor(shape, out, work_per_thread) ==
    LET ndim == Len(shape)
        dim0 == IF ndim > 0 THEN U64(shape[ndim]) ELSE U64(1)
        dim1 == IF ndim > 1 THEN U64(shape[ndim - 1]) ELSE U64(1)
        rest == SzDiv(out.size, SzMul(dim0, dim1))
    IN  <<IF ndim > 3 THEN SzDiv(dim0, U64(work_per_thread)) ELSE dim0, dim1, rest>>

\* grid of the general path: (dim0, dim1, rest)
general_grid(shape, out, work_per_thread) ==
    LET ndim == Len(shape)
        dim0 == IF ndim > 0 THEN U64(shape[ndim]) ELSE U64(1)
        dim1 == IF ndim > 1 THEN U64(shape[ndim - 1]) ELSE U64(1)
        rest == SzDiv(out.size, SzMul(dim0, dim1))
    IN  <<IF ndim > 3
          THEN SzDiv(SzAdd(dim0, U64(work_per_thread - 1)), U64(work_per_thread))
          ELSE dim0,
          dim1, rest>>

general_bindings(shape, strides_a, strides_b, arg_idx) ==
    IF Len(shape) > 3
    THEN <<Command("set_vector_bytes", shape, arg_idx),
           Command("set_vector_bytes", strides_a, arg_idx + 1),
           Command("set_vector_bytes", strides_b, arg_idx + 2),
           Command("set_bytes<int>", Len(shape), arg_idx + 3)>>
    ELSE <<Command("set_vector_bytes", strides_a, arg_idx),
           Command("set_vector_bytes", strides_b, arg_idx + 1)>>

\* the general path without its block-size check
block_size_unchecked(thread_group_size) == TRUE

block_size_ok(thread_group_size) == thread_group_size = BlockSize

\* get_block_dims (mlx/backend/metal/utils.h): the block-size heuristic, left
\* uninterpreted
get_block_dims(dim0, dim1, rest) == [fn |-> "get_block_dims", args |-> <<dim0, dim1, rest>>]

\* get_2d_grid_dims (mlx/backend/metal/utils.h): the 2D-grid heuristic, left
\* uninterpreted
get_2d_grid_dims(shape, strides, work_per_thread) ==
    [fn |-> "get_2d_grid_dims", args |-> <<shape, strides, work_per_thread>>]

\* ceildiv (mlx/backend/metal/utils.h)
ceildiv(n, m) == SzDiv(SzAdd(n, U64(m - 1)), U64(m))

\* the thread count rounded down
compact_nthreads_floor(out, work_per_thread) == SzDiv(out.data_size, U64(work_per_thread))

compact_nthreads(out, work_per_thread) == ceildiv(out.data_size, work_per_thread)

compact_group(thread_group_size, nthreads) ==
    <<IF SzLess(nthreads, U64(thread_group_size)) THEN nthreads ELSE U64(thread_group_size),
      U64(1), U64(1)>>

compact_count_binding(large, out, arg_idx) ==
    IF large
    THEN Command("set_bytes<int64_t>", out.data_size, arg_idx)
    ELSE Command("set_bytes<int>", ToInt32(out.data_size), arg_idx)

compact_grid(large, out, nthreads, work_per_thread) ==
    IF large THEN get_2d_grid_dims(out.shape, out.strides, work_per_thread)
    ELSE <<nthreads, U64(1), U64(1)>>

\* the dispatch_threads calls that end a path
submit(grid_dims, group_dims) ==
    <<Command("dispatch_threads", [grid |-> grid_dims, group |-> group_dims], -1)>>

\* every call recorded on the encoder of stream 0
encoder_of_default(s) == 0

\* the stream index whose encoder the call records on
encoder_of(s) == s

\* One call: what it records on the encoder, what it resolves, how it ends.
run_binary_op(inputs, outputs, op, thread_group_size, heuristic) ==
    LET a    == inputs[1]
        b    == inputs[2]
        bopt == get_binary_op_type(a, b)
        out  == outputs[1]
    IN  IF empty_output(out)
        THEN [outcome |-> "returned_early", cmds |-> <<>>, resolved |-> {}, locals |-> <<>>]
        ELSE
        LET c     == maybe_collapse(bopt, a, b, out)
            large == select_large(bopt, a, b, out)
            work_per_thread == select_work_per_thread(bopt, large, heuristic)
            kernel_name ==
                get_kernel_name(bopt, op, a, large, Len(c.shape), work_per_thread)
            kernel  == resolve_kernel(outputs, kernel_name, a, out, op)
            bound   == <<Command("set_compute_pipeline_state", kernel, -1)>>
                       \o array_bindings(outputs)
            arg_idx == first_free_slot(outputs)
            loc     == [bopt |-> bopt, shape |-> c.shape,
                        strides_a |-> c.strides_a, strides_b |-> c.strides_b,
                        large |-> large, work_per_thread |-> work_per_thread,
                        kernel_name |-> kernel_name]
        IN  IF bopt = "General"
            THEN LET grid  == general_grid(c.shape, out, work_per_thread)
                     binds == general_bindings(c.shape, c.strides_a, c.strides_b, arg_idx)
                 IN  IF ~block_size_ok(thread_group_size)
                     THEN [outcome |-> "thrown", cmds |-> bound \o binds,
                           resolved |-> {kernel}, locals |-> loc]
                     ELSE [outcome |-> "returned",
                           cmds |-> bound \o binds
                                    \o submit(grid, get_block_dims(grid[1], grid[2], grid[3])),
                           resolved |-> {kernel}, locals |-> loc]
            ELSE LET nthreads == compact_nthreads(out, work_per_thread)
                 IN  [outcome |-> "returned",
                      cmds |-> bound
                               \o <<compact_count_binding(large, out, arg_idx)>>
                               \o submit(compact_grid(large, out, nthreads, work_per_thread),
                                         compact_group(thread_group_size, nthreads)),
                      resolved |-> {kernel}, locals |-> loc]

(***************************************************************************)
(* The calls the model makes.                                              *)
(***************************************************************************)
Shape(r, d, e) == [i \in 1..r |-> IF i = r THEN e ELSE d]

SmallShapes == {Shape(r, d, e) : r \in 0..MaxRank, d \in 2..MaxDim, e \in 0..MaxDim}

SmallLayouts == {"scalar", "dense", "bcast", "alt"}

\* counts at the two width thresholds, and one element above them
BigCases ==
    {[shape |-> sh, la |-> l[1], lb |-> l[2]] :
        sh \in {<<INT32_MAX>>, <<32768, 65536>>, <<65535, 65537>>, <<65536, 65536>>},
        l \in {<<"dense", "dense">>, <<"dense", "bcast">>, <<"scalar", "dense">>,
               <<"dense", "scalar">>}}
    \cup {[shape |-> <<INT32_MAX>>, la |-> "step2", lb |-> "dense"],
          [shape |-> <<INT32_MAX>>, la |-> "dense", lb |-> "step2"],
          [shape |-> <<2, 16384, 2, 32768>>, la |-> "alt", lb |-> "dense"]}

Cases ==
    {[shape |-> sh, la |-> la, lb |-> lb] :
        sh \in SmallShapes, la \in SmallLayouts, lb \in SmallLayouts}
    \cup BigCases

\* the output takes the broadcast shape of the operands
Broadcastable(c) == (c.la = "scalar" /\ c.lb = "scalar") => c.shape = <<>>

\* operator, element type and number of outputs of a call
Kinds ==
    {[op |-> "Add", dtype |-> "Float32", nout |-> 1],
     [op |-> "DivMod", dtype |-> "Int8", nout |-> 2]}

PriorWork(k) ==
    [i \in 1..k |->
        Command("dispatch_threads",
                [grid |-> <<U64(1), U64(1), U64(1)>>, group |-> <<U64(1), U64(1), U64(1)>>],
                -1)]

\* a get_kernel_name call not made yet
Unset == [set |-> FALSE]

Init ==
    /\ \E k \in 0..MaxPrior : enc = [s \in Streams |-> PriorWork(k)]
    /\ library = {}
    /\ maxTotalThreadsPerThreadgroup \in MaxThreadsValues
    /\ call = <<>>
    /\ locals = <<>>
    /\ outcome = "idle"
    /\ first = Unset
    /\ second = Unset

binary_op_gpu_inplace(inputs, outputs, op, s, heuristic) ==
    LET r == run_binary_op(inputs, outputs, op, maxTotalThreadsPerThreadgroup, heuristic)
    IN  /\ enc' = [enc EXCEPT ![encoder_of(s)] = @ \o r.cmds]
        /\ library' = library \cup r.resolved
        /\ call' = [inputs |-> inputs, outputs |-> outputs, op |-> op, s |-> s]
        /\ locals' = r.locals
        /\ outcome' = r.outcome
        /\ UNCHANGED <<maxTotalThreadsPerThreadgroup, first, second>>

\* the arguments of the calls: operands of a case, outputs of its shape
Calls ==
    {[inputs  |-> <<Operand(c.shape, c.la, k.dtype), Operand(c.shape, c.lb, k.dtype)>>,
      outputs |-> [i \in 1..k.nout |-> View(c.shape, "dense", k.dtype)],
      op      |-> k.op] : c \in {x \in Cases : Broadcastable(x)}, k \in Kinds}

\* the answers get_work_per_thread may give where the call asks for one
Heuristics(c) ==
    IF empty_output(c.outputs[1]) \/ get_binary_op_type(c.inputs[1], c.inputs[2]) = "General"
    THEN {1}
    ELSE get_work_per_thread(c.inputs[1].dtype, c.outputs[1].data_size)

Dispatch ==
    /\ outcome = "idle"
    /\ \E c \in Calls, s \in Streams :
          \E h \in Heuristics(c) :
              binary_op_gpu_inplace(c.inputs, c.outputs, c.op, s, h)

Next == Dispatch

Spec == Init /\ [][Next]_vars

(***************************************************************************)
(* get_kernel_name on its own: two calls, with arguments drawn from the    *)
(* values its caller can pass (ndim is the collapsed rank, 0 for the       *)
(* categories that are not collapsed).                                     *)
(***************************************************************************)
NamerRanks == 2..MaxRank
NamerWork == {1, 2, 4}
NamerOps == {"Add", "DivMod"}

NamerArgs ==
    {[bopt |-> t, op |-> o, dtype |-> d, large |-> l, ndim |-> n, work_per_thread |-> w] :
        t \in BinaryOpTypes, o \in NamerOps, d \in Dtypes, l \in BOOLEAN,
        n \in NamerRanks \cup {0}, w \in NamerWork}

Passable(x) == (x.bopt = "General") = (x.ndim # 0)

Named(x) ==
    [set   |-> TRUE,
     args  |-> x,
     kname |-> get_kernel_name(x.bopt, x.op, Scalar(x.dtype), x.large, x.ndim,
                               x.work_per_thread)]

InitNamer ==
    /\ enc = [s \in Streams |-> <<>>]
    /\ library = {}
    /\ maxTotalThreadsPerThreadgroup = BlockSize
    /\ call = <<>>
    /\ locals = <<>>
    /\ outcome = "idle"
    /\ first = Unset
    /\ second = Unset

NameFirst ==
    /\ ~first.set
    /\ \E x \in NamerArgs : Passable(x) /\ first' = Named(x)
    /\ UNCHANGED <<enc, library, maxTotalThreadsPerThreadgroup, call, locals, outcome, second>>

NameSecond ==
    /\ first.set /\ ~second.set
    /\ \E x \in NamerArgs : Passable(x) /\ second' = Named(x)
    /\ UNCHANGED <<enc, library, maxTotalThreadsPerThreadgroup, call, locals, outcome, first>>

NextNamer == NameFirst \/ NameSecond

SpecNamer == InitNamer /\ [][NextNamer]_vars

(***************************************************************************)
(* Properties.                                                             *)
(***************************************************************************)
Started == outcome \in {"returned", "thrown"}
Out == call.outputs[1]
Log == enc[call.s]
General == locals.bopt = "General"
Rank == Len(locals.shape)

\* what the call recorded: the log from its set_compute_pipeline_state on
PipelineAt ==
    CHOOSE i \in 1..Len(Log) :
        /\ Log[i].cmd = "set_compute_pipeline_state"
        /\ \A j \in (i + 1)..Len(Log) : Log[j].cmd # "set_compute_pipeline_state"
Recorded == SubSeq(Log, PipelineAt, Len(Log))
IsBinding(c) == c.slot >= 0
Bindings == SelectSeq(Recorded, IsBinding)
Submitted == Recorded[Len(Recorded)].val
Submissions(log) == Cardinality({i \in 1..Len(log) : log[i].cmd = "dispatch_threads"})

GridProduct(g) == SzMul(SzMul(g[1], g[2]), g[3])
\* q = ceiling(n / w)
IsCeil(q, n, w) == SzLeq(n, SzMul(q, U64(w))) /\ SzLess(SzMul(q, U64(w)), SzAdd(n, U64(w)))
\* the grid is a triple of counts (the Wide compact grid comes from get_2d_grid_dims)
GridKnown == General \/ ~locals.large

\* the fields of a get_kernel_name call the claim counts
RankBucket(x) == IF x.bopt # "General" THEN 0 ELSE IF x.ndim <= 3 THEN x.ndim ELSE 4
Tuple(x) == <<x.bopt, RankBucket(x), x.large, x.work_per_thread, x.op, x.dtype>>
\* the fields the name encodes
Encoded(x) ==
    <<x.bopt, RankBucket(x), x.op, x.dtype,
      x.bopt # "ScalarScalar" /\ x.large,
      IF x.bopt = "General" /\ x.ndim > 3 THEN x.work_per_thread
      ELSE IF x.bopt \notin {"General", "ScalarScalar"} /\ ~x.large /\ x.work_per_thread > 1
           THEN 1 ELSE 0>>

\* C1 as claimed: two get_kernel_name calls return the same string exactly when
\* their (category, rank bucket, large, work_per_thread, operator, element
\* type) tuples are equal.
C1_InjectiveOverTuple ==
    (first.set /\ second.set) =>
        ((Tuple(first.args) = Tuple(second.args)) <=> (first.kname = second.kname))

\* C1 amended: two get_kernel_name calls return the same string exactly when
\* they agree on category, rank bucket, operator, element type, on large
\* unless the category is ScalarScalar, and on work_per_thread where the name
\* carries it (its value for General with rank > 3, whether it exceeds 1 for
\* Narrow ScalarVector, VectorScalar and VectorVector).
C1_InjectiveOverEncoded ==
    (first.set /\ second.set) =>
        ((Encoded(first.args) = Encoded(second.args)) <=> (first.kname = second.kname))

C1_Witness ==
    /\ first.set /\ second.set
    /\ first.args.bopt = "General" /\ first.args.ndim = 3 /\ ~first.args.large
    /\ second.args = [first.args EXCEPT !.large = TRUE]
    /\ first.kname # second.kname

TagOf(x) ==
    CASE x.bopt = "ScalarScalar" -> "ss" [] x.bopt = "ScalarVector" -> "sv"
      [] x.bopt = "VectorScalar" -> "vs" [] x.bopt = "VectorVector" -> "vv"
      [] x.bopt = "General" -> "g"
RankPart(x) ==
    IF x.bopt # "General" THEN ""
    ELSE IF x.ndim <= 3 THEN to_string(x.ndim) ELSE "n" \o to_string(x.work_per_thread)
WidthSuffix(x) == IF x.large THEN "2" ELSE IF x.work_per_thread > 1 THEN "n" ELSE ""
NameTail(x) == "_" \o x.op \o type_to_name(Scalar(x.dtype))

\* C8 as claimed: the key is the category tag, for General the rank (or "n" and
\* work_per_thread) and no width suffix, for every other category the width
\* suffix ("2" when Wide, "n" when work_per_thread > 1 and Narrow), then the
\* operator and the element type.
C8_SuffixAllNonGeneral ==
    first.set =>
        first.kname =
            TagOf(first.args) \o RankPart(first.args)
            \o (IF first.args.bopt # "General" THEN WidthSuffix(first.args) ELSE "")
            \o NameTail(first.args)

\* C8 amended: the width suffix is appended for ScalarVector, VectorScalar and
\* VectorVector only; ScalarScalar carries none, and General carries "large"
\* after its rank part when the width is Wide.
C8_SuffixVectorCategories ==
    first.set =>
        first.kname =
            TagOf(first.args) \o RankPart(first.args)
            \o (CASE first.args.bopt = "General" ->
                        IF first.args.large THEN "large" ELSE ""
                  [] first.args.bopt = "ScalarScalar" -> ""
                  [] OTHER -> WidthSuffix(first.args))
            \o NameTail(first.args)

C8_Witness ==
    /\ first.set
    /\ first.args.bopt = "ScalarScalar" /\ first.args.large
    /\ first.kname = "ss_Addfloat32"

(***************************************************************************)
(* Launch geometry.                                                        *)
(***************************************************************************)
Covers(g, w, n) == SzLeq(n, SzMul(GridProduct(g), U64(w)))
WithinOneRow(g, w, n) ==
    SzLess(SzMul(GridProduct(g), U64(w)), SzAdd(n, SzMul(U64(w), g[1])))
Dim0 == IF Rank > 0 THEN U64(locals.shape[Rank]) ELSE U64(1)
Dim1 == IF Rank > 1 THEN U64(locals.shape[Rank - 1]) ELSE U64(1)

OneMore(n) == SzAdd(n, U64(1))
CompactBoundary ==
    ~General =>
        /\ Out.data_size = UINT32_MAX => ~locals.large
        /\ Out.data_size = OneMore(UINT32_MAX) => locals.large

\* C3 as claimed: a count equal to the narrow-width maximum selects Narrow and
\* one element more selects Wide, on the general path (INT32_MAX) and on the
\* compact path (UINT32_MAX), for every pair of operands.
C3_BoundaryEveryOperandPair ==
    Started =>
        /\ General =>
              /\ Out.size = U64(INT32_MAX) => ~locals.large
              /\ Out.size = OneMore(U64(INT32_MAX)) => locals.large
        /\ CompactBoundary

\* C3 amended: on the compact path the boundary is as claimed.  On the general
\* path an output of INT32_MAX elements selects Narrow only when neither
\* operand's storage element count exceeds INT32_MAX, and Wide otherwise; one
\* element more always selects Wide.
C3_BoundaryWithOperandStorage ==
    Started =>
        /\ General =>
              /\ Out.size = U64(INT32_MAX) =>
                    (locals.large <=>
                        \/ SzLess(U64(INT32_MAX), call.inputs[1].data_size)
                        \/ SzLess(U64(INT32_MAX), call.inputs[2].data_size))
              /\ Out.size = OneMore(U64(INT32_MAX)) => locals.large
        /\ CompactBoundary

C3_Witness ==
    /\ Started /\ General
    /\ Out.size = U64(INT32_MAX)
    /\ ~locals.large

(***************************************************************************)
(* Empty output.                                                           *)
(***************************************************************************)
\* C4: a call whose first output has zero elements returns at once; it
\* resolves no kernel and records nothing (no pipeline state, no binding, no
\* submission) on any encoder, whatever the operands and the number of outputs.
C4_EmptyOutputNoEffect ==
    [][(outcome = "idle" /\ outcome' # "idle" /\ call'.outputs[1].size = U64(0)) =>
          (outcome' = "returned_early" /\ enc' = enc /\ library' = library)]_vars

C4_Witness ==
    /\ outcome = "returned_early"
    /\ Len(call.outputs) = 2
    /\ library = {}

(***************************************************************************)
(* Submissions.                                                            *)
(***************************************************************************)
OtherEncodersKept == \A t \in Streams \ {call'.s} : enc'[t] = enc[t]
NonEmptyCall == outcome = "idle" /\ outcome' # "idle" /\ call'.outputs[1].size # U64(0)

\* C5 as claimed: every call with a non-empty output enqueues exactly one
\* dispatch_threads on the encoder of its stream and touches no other encoder.
C5_OneSubmissionEveryCall ==
    [][NonEmptyCall =>
          /\ Submissions(enc'[call'.s]) = Submissions(enc[call'.s]) + 1
          /\ OtherEncodersKept]_vars

\* C5 amended: a call with a non-empty output that returns enqueues exactly one
\* dispatch_threads on the encoder of its stream; a call that aborts on the
\* general path's block-size check enqueues none (its pipeline state and
\* bindings are already recorded); in both cases no other encoder is touched.
C5_OneSubmissionWhenReturned ==
    [][NonEmptyCall =>
          /\ outcome' = "returned" =>
                Submissions(enc'[call'.s]) = Submissions(enc[call'.s]) + 1
          /\ outcome' = "thrown" =>
                /\ Submissions(enc'[call'.s]) = Submissions(enc[call'.s])
                /\ Len(enc'[call'.s]) > Len(enc[call'.s])
          /\ outcome' \in {"returned", "thrown"}
          /\ OtherEncodersKept]_vars

C5_Witness ==
    /\ outcome = "returned"
    /\ call.s = 1
    /\ Submissions(enc[1]) = Submissions(enc[0]) + 1
    /\ Len(call.outputs) = 2

(***************************************************************************)
(* Argument binding.                                                       *)
(***************************************************************************)
\* slots taken by the operands and the outputs
ArraySlots == 2 + Len(call.outputs)

ArraysBoundFirst ==
    /\ Len(Bindings) > ArraySlots
    /\ \A i \in 1..Len(Bindings) : Bindings[i].slot = i - 1
    /\ Bindings[1] = Command("set_input_array", "a", 0)
    /\ Bindings[2] = Command("set_input_array", "b", 1)
    /\ Bindings[3] = Command("set_output_array", "outputs[0]", 2)
    /\ Len(call.outputs) = 2 => Bindings[4] = Command("set_output_array", "outputs[1]", 3)

PathBindings ==
    LET k == ArraySlots
    IN  /\ (General /\ Rank > 3) =>
              /\ Len(Bindings) = k + 4
              /\ Bindings[k + 1].val = locals.shape
              /\ Bindings[k + 2].val = locals.strides_a
              /\ Bindings[k + 3].val = locals.strides_b
              /\ Bindings[k + 4].cmd = "set_bytes<int>"
              /\ Bindings[k + 4].val = Rank
        /\ (General /\ Rank <= 3) =>
              /\ Len(Bindings) = k + 2
              /\ Bindings[k + 1].val = locals.strides_a
              /\ Bindings[k + 2].val = locals.strides_b
              /\ Len(Bindings[k + 1].val) = Rank
              /\ Len(Bindings[k + 2].val) = Rank
        /\ ~General =>
              /\ Len(Bindings) = k + 1
              /\ Bindings[k + 1].cmd \in {"set_bytes<int>", "set_bytes<int64_t>"}

BindingsBeforeSubmission ==
    /\ Recorded[1].cmd = "set_compute_pipeline_state"
    /\ SubSeq(Recorded, 2, Len(Bindings) + 1) = Bindings
    /\ outcome = "returned" =>
          /\ Len(Recorded) = Len(Bindings) + 2
          /\ Recorded[Len(Recorded)].cmd = "dispatch_threads"
    /\ outcome = "thrown" => Len(Recorded) = Len(Bindings) + 1

\* C6: the bindings take consecutive slots from 0, in the order operand a,
\* operand b, first output, second output when there is one, then shape,
\* strides a, strides b and rank (General, collapsed rank > 3), or strides a
\* and strides b, each as long as the collapsed rank (General, rank <= 3), or
\* the single output element count (compact); every binding precedes the
\* submission, and a second output moves each later slot up by one.
C6_BindingOrder ==
    Started => (ArraysBoundFirst /\ PathBindings /\ BindingsBeforeSubmission)

C6_Witness ==
    /\ outcome = "returned" /\ General
    /\ Len(Out.shape) = 5 /\ Rank = 2
    /\ Len(call.outputs) = 2
    /\ Len(Bindings) = 6

(***************************************************************************)
(* Block size of the general path.                                         *)
(***************************************************************************)
\* C7: on the general path a maximum threads-per-group other than 1024 ends
\* the call in an error with no dispatch_threads recorded; with 1024 the call
\* returns without error.
C7_BlockSizeChecked ==
    (Started /\ General) =>
        /\ maxTotalThreadsPerThreadgroup # 1024 =>
              (outcome = "thrown" /\ Submissions(Recorded) = 0)
        /\ maxTotalThreadsPerThreadgroup = 1024 => outcome = "returned"

C7_Witness ==
    /\ outcome = "thrown" /\ General
    /\ maxTotalThreadsPerThreadgroup # 1024
    /\ Submissions(Recorded) = 0

(***************************************************************************)
(* Compact path.                                                           *)
(***************************************************************************)
Compact == outcome = "returned" /\ ~General
One == U64(1)

\* g = min(m, ceiling(n / w))
IsMinWithCeil(g, m, n, w) ==
    \/ SzLeq(g, U64(m)) /\ IsCeil(g, n, w)
    \/ g = U64(m) /\ SzLess(SzMul(U64(m), U64(w)), n)

C10_CountNeverWraps ==
    Compact =>
        LET count == Bindings[Len(Bindings)]
        IN  IF locals.large
            THEN count.cmd = "set_bytes<int64_t>" /\ count.val = Out.data_size
            ELSE /\ count.cmd = "set_bytes<int>"
                 /\ count.val >= 0
                 /\ U64(count.val) = Out.data_size

====
